---- MODULE Spec2Model ----
(***************************************************************************)
(* Travel-plan generation pipeline of travel-ai-backend: POST /plan        *)
(* (generateTravelPlan), its detached continuation (processTravelPlan),    *)
(* the Gemini generator's response handling, the destination safety gate   *)
(* and the plan read/update/rate/delete handlers.                          *)
(***************************************************************************)
EXTENDS Integers, Sequences, FiniteSets, TLC

(* ------------------------------ bounds -------------------------------- *)

\* number of POST /plan calls explored
MaxPlans == 2
\* successful retrievals counted per plan
MaxViews == 1

Users == {"u1", "u2"}
PlanIds == 1..MaxPlans
Undefined == "undefined"

(* ----------------------- destination safety gate ---------------------- *)

\* toLowerCase() over the vocabulary of the destination texts explored
Lower(tok) ==
  CASE tok = "Paris" -> "paris"
    [] tok = "France" -> "france"
    [] tok = "Dubai" -> "dubai"
    [] tok = "IRAN" -> "iran"
    [] tok = "Iran" -> "iran"
    [] tok = "Turkey" -> "turkey"
    [] tok = "Syria" -> "syria"
    [] tok = "Somalia" -> "somalia"
    [] tok = "Romania" -> "romania"
    [] tok = "Atlantis" -> "atlantis"
    [] tok = "Istanbul" -> "istanbul"
    [] tok = "Mali" -> "mali"
    [] tok = "Oman" -> "oman"
    [] tok = "United Arab Emirates" -> "united arab emirates"
    [] OTHER -> tok

\* a destination text is a sequence of words; cleaned = trim().toLowerCase()
Cleaned(destination) == [i \in DOMAIN destination |-> Lower(destination[i])]

\* String.prototype.includes on a cleaned text: the key is one of its words
\* or lies inside one ("mali" in "somalia", "oman" in "romania")
InsideWord == {<<"mali", "somalia">>, <<"oman", "romania">>}
Includes(cleaned, key) ==
  \E i \in DOMAIN cleaned : cleaned[i] = key \/ <<key, cleaned[i]>> \in InsideWord

\* the tables, in source order (entries of the source tables that the
\* explored texts can hit)
cityInfo == << [city |-> "Istanbul", country |-> "Turkey"],
               [city |-> "Paris", country |-> "France"],
               [city |-> "Dubai", country |-> "United Arab Emirates"] >>

safeDestinations ==
  << [country |-> "France", safe |-> TRUE, visaRequired |-> FALSE, warnings |-> <<>>],
     [country |-> "Romania", safe |-> TRUE, visaRequired |-> FALSE, warnings |-> <<>>],
     [country |-> "Turkey", safe |-> TRUE, visaRequired |-> FALSE, warnings |-> <<>>],
     [country |-> "United Arab Emirates", safe |-> TRUE,
      visaRequired |-> FALSE, warnings |-> <<>>],
     [country |-> "Oman", safe |-> TRUE, visaRequired |-> TRUE, warnings |-> <<>>] >>

advisoryDestinations ==
  << [country |-> "Syria", safe |-> FALSE, visaRequired |-> TRUE,
      warnings |-> <<"Do not travel - active conflict">>],
     [country |-> "Somalia", safe |-> FALSE, visaRequired |-> TRUE,
      warnings |-> <<"Do not travel - extreme security risk">>],
     [country |-> "Mali", safe |-> FALSE, visaRequired |-> TRUE,
      warnings |-> <<"Do not travel - security threats">>],
     [country |-> "Iran", safe |-> FALSE, visaRequired |-> TRUE,
      warnings |-> <<"Reconsider travel - security risks">>] >>

AdvisoryCountries == {advisoryDestinations[i].country : i \in DOMAIN advisoryDestinations}
SafeCountries == {safeDestinations[i].country : i \in DOMAIN safeDestinations}

\* first index of a sequence of texts that the cleaned text includes, 0 if none
FirstIncluded(cleaned, keys) ==
  LET hits == {i \in DOMAIN keys : Includes(cleaned, Lower(keys[i]))}
  IN IF hits = {} THEN 0 ELSE CHOOSE i \in hits : \A j \in hits : i <= j

cityKeys == [i \in DOMAIN cityInfo |-> cityInfo[i].city]

countryKeys == [i \in 1..(Len(safeDestinations) + Len(advisoryDestinations)) |->
                 IF i <= Len(safeDestinations)
                   THEN safeDestinations[i].country
                   ELSE advisoryDestinations[i - Len(safeDestinations)].country]

parseDestination(destination) ==
  LET cleaned == Cleaned(destination)
      ci == FirstIncluded(cleaned, cityKeys)
      ki == FirstIncluded(cleaned, countryKeys)
  IN IF ci > 0 THEN [city |-> cityInfo[ci].city, country |-> cityInfo[ci].country]
     ELSE IF ki > 0 THEN [city |-> Undefined, country |-> countryKeys[ki]]
     ELSE [city |-> Undefined, country |-> "Unknown"]

Entry(table, country) == table[CHOOSE i \in DOMAIN table : table[i].country = country]

\* variant: the advisory table is not consulted
verifyDestination_ignoreAdvisory(destination) ==
  LET country == parseDestination(destination).country
  IN [isAccessible |-> TRUE, isSafe |-> TRUE, country |-> country,
      visaRequired |-> FALSE, warnings |-> <<>>, travelAdvisory |-> Undefined]

verifyDestination(destination) ==
  LET country == parseDestination(destination).country
  IN IF country \in AdvisoryCountries
       THEN LET a == Entry(advisoryDestinations, country)
            IN [isAccessible |-> a.safe, isSafe |-> a.safe, country |-> country,
                visaRequired |-> a.visaRequired, warnings |-> a.warnings,
                travelAdvisory |-> IF a.safe THEN "caution" ELSE "do-not-travel"]
     ELSE IF country \in SafeCountries
       THEN LET s == Entry(safeDestinations, country)
            IN [isAccessible |-> TRUE, isSafe |-> s.safe, country |-> country,
                visaRequired |-> s.visaRequired, warnings |-> s.warnings,
                travelAdvisory |-> Undefined]
     ELSE [isAccessible |-> TRUE, isSafe |-> TRUE, country |-> country,
           visaRequired |-> TRUE,
           warnings |-> <<"Limited information available for this destination">>,
           travelAdvisory |-> Undefined]

\* destination texts explored
Destinations == { <<"Paris", "France">>, <<"Syria">>, <<"IRAN">>, <<"Somalia">>,
                  <<"Dubai", "Iran">>, <<"Atlantis">> }

\* the text names a country of the advisory table
NamesAdvisory(destination) ==
  \E c \in AdvisoryCountries : Includes(Cleaned(destination), Lower(c))

(* --------------------------- Gemini generator -------------------------- *)

\* an error message is a sequence of phrases; message.includes(kw)
MsgIncludes(msg, kw) == \E i \in DOMAIN msg : msg[i] = kw

\* variant: the rate-limit test is made first
handleGeminiError_rateFirst(msg) ==
  IF MsgIncludes(msg, "rate limit") THEN "RATE_LIMIT_EXCEEDED"
  ELSE IF MsgIncludes(msg, "quota") THEN "GEMINI_QUOTA_EXCEEDED"
  ELSE IF MsgIncludes(msg, "safety") THEN "CONTENT_FILTERED"
  ELSE "GEMINI_API_ERROR"

handleGeminiError(msg) ==
  IF MsgIncludes(msg, "quota") THEN "GEMINI_QUOTA_EXCEEDED"
  ELSE IF MsgIncludes(msg, "safety") THEN "CONTENT_FILTERED"
  ELSE IF MsgIncludes(msg, "rate limit") THEN "RATE_LIMIT_EXCEEDED"
  ELSE "GEMINI_API_ERROR"

ProviderErrorClasses ==
  {"GEMINI_QUOTA_EXCEEDED", "CONTENT_FILTERED", "RATE_LIMIT_EXCEEDED", "GEMINI_API_ERROR"}

RequiredTop == {"mainRoutes", "surpriseAlternatives", "localTips", "timingAdvice"}
RequiredRoute == {"id", "name", "totalCost", "breakdown", "dailyPlan"}

\* variant: only the first route is looked at
validateParsedPlan_firstRouteOnly(parsed) ==
  IF RequiredTop \ parsed.top # {} THEN <<"Missing required fields">>
  ELSE IF Len(parsed.routes) = 0 THEN <<"At least one main route is required">>
  ELSE IF RequiredRoute \ parsed.routes[1] # {} THEN <<"Route missing fields">>
  ELSE <<>>

\* geminiService.validateTravelPlan on a parsed object: the message thrown,
\* or <<>> when the object passes.  parsed.top: truthy top-level fields;
\* parsed.routes: for each route the set of its defined fields
validateParsedPlan(parsed) ==
  IF RequiredTop \ parsed.top # {} THEN <<"Missing required fields">>
  ELSE IF Len(parsed.routes) = 0 THEN <<"At least one main route is required">>
  ELSE IF \E i \in DOMAIN parsed.routes : RequiredRoute \ parsed.routes[i] # {}
    THEN <<"Route missing fields">>
  ELSE <<>>

\* a response text: whether it holds a ```json fence, whether it holds a
\* {...} span, whether the extracted span JSON-decodes, and the decoded object
OkPlan == [top |-> RequiredTop, routes |-> <<RequiredRoute>>]

ResponseTexts ==
  { [fenced |-> TRUE,  braces |-> TRUE,  decodes |-> TRUE,  parsed |-> OkPlan],
    [fenced |-> FALSE, braces |-> TRUE,  decodes |-> TRUE,  parsed |-> OkPlan],
    [fenced |-> FALSE, braces |-> FALSE, decodes |-> FALSE, parsed |-> OkPlan],
    [fenced |-> TRUE,  braces |-> TRUE,  decodes |-> FALSE, parsed |-> OkPlan],
    [fenced |-> FALSE, braces |-> TRUE,  decodes |-> TRUE,
     parsed |-> [top |-> RequiredTop \ {"timingAdvice"}, routes |-> <<RequiredRoute>>]],
    [fenced |-> FALSE, braces |-> TRUE,  decodes |-> TRUE,
     parsed |-> [top |-> RequiredTop, routes |-> <<>>]],
    [fenced |-> TRUE,  braces |-> TRUE,  decodes |-> TRUE,
     parsed |-> [top |-> RequiredTop,
                 routes |-> <<RequiredRoute, RequiredRoute \ {"dailyPlan"}>>]] }

\* what the try block of parseGeminiResponse raises, <<>> when nothing
parseRaised(text) ==
  IF ~text.fenced /\ ~text.braces THEN <<"No JSON found in Gemini response">>
  ELSE IF ~text.decodes THEN <<"Unexpected token">>
  ELSE validateParsedPlan(text.parsed)

\* parseGeminiResponse: [ok, plan] or [~ok, message thrown]; whatever the try
\* block raised, the catch block throws one fixed message in its place
parseGeminiResponse(text) ==
  IF parseRaised(text) = <<>>
    THEN [ok |-> TRUE, plan |-> text.parsed, message |-> <<>>]
    ELSE [ok |-> FALSE, plan |-> text.parsed,
          message |-> <<"Invalid response format from AI service">>]

\* what model.generateContent can do: reject with a provider error text, or
\* resolve with or without a response
ProviderErrorTexts ==
  { <<"quota">>, <<"safety">>, <<"rate limit">>, <<"API Error">>,
    <<"rate limit", "quota">>, <<"rate limit", "safety">>, <<"safety", "quota">> }

ProviderOutcomes ==
  [kind : {"reject"}, msg : ProviderErrorTexts, text : {CHOOSE t \in ResponseTexts : TRUE}]
  \cup [kind : {"resolve"}, msg : {<<>>}, text : ResponseTexts]
  \cup [kind : {"no_response"}, msg : {<<>>}, text : {CHOOSE t \in ResponseTexts : TRUE}]

\* GeminiService.generateTravelPlan after generateContent settled: ok, or the
\* error it throws; every error raised in its try block, the provider's or its
\* own, goes through handleGeminiError.  raised: the message first raised
geminiGenerate(outcome) ==
  IF outcome.kind = "reject"
    THEN [ok |-> FALSE, error |-> handleGeminiError(outcome.msg), raised |-> outcome.msg]
  ELSE IF outcome.kind = "no_response"
    THEN [ok |-> FALSE, error |-> handleGeminiError(<<"No response from Gemini API">>),
          raised |-> <<"No response from Gemini API">>]
  ELSE LET r == parseGeminiResponse(outcome.text)
       IN IF r.ok THEN [ok |-> TRUE, error |-> Undefined, raised |-> <<>>]
          ELSE [ok |-> FALSE, error |-> handleGeminiError(r.message),
                raised |-> parseRaised(outcome.text)]


(* ---------------------------- price validator -------------------------- *)

\* PriceValidation.validateTravelPlan seen from the orchestrator: the report
\* it resolves with.  routeInvalid: some route failed the per-route checks;
\* findings: warnings collected; threw: an error was raised inside the try
\* block (caught there and turned into the fallback report)
ValidatorRuns == [routeInvalid : BOOLEAN, findings : {0, 1}, threw : BOOLEAN]

\* variant: the validator lets the error raised inside it escape
validateTravelPlan_rethrow(run) ==
  IF run.threw
    THEN [threw |-> TRUE, fallback |-> FALSE, isValid |-> FALSE, warningCount |-> 0,
          hasDetails |-> FALSE]
    ELSE [threw |-> FALSE, fallback |-> FALSE, isValid |-> ~run.routeInvalid,
          warningCount |-> run.findings, hasDetails |-> TRUE]

\* threw: the promise rejects; fallback: the catch block's report
\* (isValid false, no warnings, validationDetails holding the error)
validateTravelPlan(run) ==
  IF run.threw
    THEN [threw |-> FALSE, fallback |-> TRUE, isValid |-> FALSE, warningCount |-> 0,
          hasDetails |-> TRUE]
    ELSE [threw |-> FALSE, fallback |-> FALSE, isValid |-> ~run.routeInvalid,
          warningCount |-> run.findings, hasDetails |-> TRUE]

(* ------------------------------ persistence ---------------------------- *)

\* paths declared by travelPlanSchema (strict mode, the mongoose default:
\* a path the schema does not declare is dropped from a write)
SchemaPaths ==
  { "user", "planId", "request", "mainRoutes", "surpriseAlternatives", "localTips",
    "timingAdvice", "metadata.generatedAt", "metadata.creditsUsed",
    "metadata.responseTime", "metadata.geminiModel", "metadata.promptVersion",
    "status", "isPublic", "views", "rating" }

\* the update document of the failure handler
FailedUpdate(message) == [path \in {"status", "metadata.error"} |->
                            IF path = "status" THEN "failed" ELSE message]

\* findOneAndUpdate applied to a stored document: only declared paths are written
ApplyUpdate(doc, update) ==
  LET kept == DOMAIN update \cap SchemaPaths
  IN [doc EXCEPT !.status = IF "status" \in kept THEN update["status"] ELSE @,
                 !.error = IF "metadata.error" \in kept THEN update["metadata.error"] ELSE @]

NewDraft(u) == [status |-> "draft", user |-> u, isPublic |-> FALSE, views |-> 0,
                rating |-> 0, error |-> Undefined, generated |-> FALSE]
NoDoc == [status |-> "absent", user |-> Undefined, isPublic |-> FALSE, views |-> 0,
          rating |-> 0, error |-> Undefined, generated |-> FALSE]

\* prom-client observe() throws a TypeError on a value that is not a number;
\* trackBudget is handed request.budget, which the isNumeric() request check
\* lets through as a numeric string
trackBudgetThrows(budgetIsNumber) == ~budgetIsNumber

(* -------------------------------- state -------------------------------- *)

VARIABLES
  plans,       \* planId -> stored TravelPlan document, NoDoc when none
  planCount,   \* user -> User.planCount
  task,        \* planId -> the processTravelPlan continuation of that call
  resp,        \* planId -> the POST /plan call that drew it and its answer
  aiCalls,     \* planId -> calls made to the provider for that plan
  nextPlan     \* POST /plan calls so far

\* state of the identifier model: plan identifiers as generatePlanId makes them
VARIABLES
  clock,       \* Date.now(), in milliseconds
  accepted,    \* the accepted requests, in order: [ms, random, planId, pc]
  collection   \* the TravelPlan collection, in insertion order

\* state of the price validation model: one validation run on given inputs
VARIABLES
  check        \* [phase, request, plan, conversion, report, stored]

\* state of the generator model: one provider response handled and stored
VARIABLES
  generation   \* [phase, text, returned, stored]

\* state of the cache key model: two plan requests and their fingerprints
VARIABLES
  lookup       \* [phase, first, second, firstKey, againKey, secondKey]

\* state of the date model: the dates of one request checked and handed on
VARIABLES
  trip   \* [phase, startDate, endDate, duration]

\* state of the retrieval model: one stored plan and the GET requests on it
VARIABLES
  reading   \* [doc, gets]

\* state of the account model: one user, one of the user's plans, the user's requests in flight
VARIABLES
  account   \* [isActive, plan, updates, deletion]

\* outlier detection, applied to lists of routes
VARIABLES
  detection   \* [pc, routes, outliers]

\* alerting service: the clock it reads and its recorded alerts
VARIABLES
  alerting   \* [now, alerts]

pipelineVars == <<plans, planCount, task, resp, aiCalls, nextPlan>>
idVars == <<clock, accepted, collection>>
validationVars == <<check>>
generationVars == <<generation>>
keyVars == <<lookup>>
tripVars == <<trip>>
readingVars == <<reading>>
accountVars == <<account>>
detectionVars == <<detection>>
alertingVars == <<alerting>>
unitVars == <<idVars, validationVars, generationVars, keyVars, tripVars, readingVars, accountVars, detectionVars, alertingVars>>
otherThanIds == <<pipelineVars, validationVars, generationVars, keyVars, tripVars, readingVars, accountVars, detectionVars, alertingVars>>
otherThanValidation == <<pipelineVars, idVars, generationVars, keyVars, tripVars, readingVars, accountVars, detectionVars, alertingVars>>
otherThanGeneration == <<pipelineVars, idVars, validationVars, keyVars, tripVars, readingVars, accountVars, detectionVars, alertingVars>>
otherThanKeys == <<pipelineVars, idVars, validationVars, generationVars, tripVars, readingVars, accountVars, detectionVars, alertingVars>>
otherThanTrip == <<pipelineVars, idVars, validationVars, generationVars, keyVars, readingVars, accountVars, detectionVars, alertingVars>>
otherThanReading == <<pipelineVars, idVars, validationVars, generationVars, keyVars, tripVars, accountVars, detectionVars, alertingVars>>
otherThanAccount == <<pipelineVars, idVars, validationVars, generationVars, keyVars, tripVars, readingVars, detectionVars, alertingVars>>
otherThanDetection == <<pipelineVars, idVars, validationVars, generationVars, keyVars, tripVars, readingVars, accountVars, alertingVars>>
otherThanAlerting == <<pipelineVars, idVars, validationVars, generationVars, keyVars, tripVars, readingVars, accountVars, detectionVars>>
vars == <<pipelineVars, unitVars>>

IdleTask == [pc |-> "idle", user |-> Undefined, budgetIsNumber |-> TRUE,
             error |-> Undefined, raised |-> <<>>, status |-> "failed",
             validation |-> "none"]
NoCall == [answer |-> "none", user |-> Undefined, destination |-> <<>>, isSafe |-> TRUE]

InitPipeline ==
  /\ plans = [p \in PlanIds |-> NoDoc]
  /\ planCount = [u \in Users |-> 0]
  /\ task = [p \in PlanIds |-> IdleTask]
  /\ resp = [p \in PlanIds |-> NoCall]
  /\ aiCalls = [p \in PlanIds |-> 0]
  /\ nextPlan = 0

InitIds ==
  /\ clock = 0
  /\ accepted = <<>>
  /\ collection = <<>>

\* no validation run is set up
InitValidationIdle ==
  check = [phase |-> "idle", request |-> <<>>, plan |-> <<>>, conversion |-> <<>>,
           report |-> <<>>, stored |-> <<>>]

\* no provider response is being handled
InitGenerationIdle ==
  generation = [phase |-> "idle", text |-> <<>>, returned |-> <<>>, stored |-> <<>>]

\* no fingerprint is being computed
InitKeysIdle ==
  lookup = [phase |-> "idle", first |-> <<>>, second |-> <<>>,
            firstKey |-> <<>>, againKey |-> <<>>, secondKey |-> <<>>]

InitTripIdle ==
  trip = [phase |-> "idle", startDate |-> <<>>, endDate |-> <<>>, duration |-> 0]

InitReadingIdle ==
  reading = [doc |-> <<>>, gets |-> <<>>]

InitAccountIdle ==
  account = [isActive |-> TRUE, plan |-> <<>>, updates |-> <<>>, deletion |-> <<>>]

InitDetectionIdle ==
  detection = [pc |-> "idle", routes |-> <<>>, outliers |-> {}]

InitAlertingIdle ==
  alerting = [now |-> 0, alerts |-> <<>>]

InitUnitsIdle == InitValidationIdle /\ InitGenerationIdle /\ InitKeysIdle /\ InitTripIdle /\ InitReadingIdle /\ InitAccountIdle /\ InitDetectionIdle /\ InitAlertingIdle

Init == InitPipeline /\ InitIds /\ InitUnitsIdle

(* ------------------------- POST /plan (controller) --------------------- *)

\* variant: a destination that resolves to no known country is refused too
submitAnswer_refuseUnknown(destination, requestValid) ==
  LET info == verifyDestination(destination)
  IN IF ~requestValid THEN "validation_failed"
     ELSE IF ~info.isAccessible \/ ~info.isSafe \/ info.country = "Unknown"
       THEN "rejected"
     ELSE "processing"

\* the answer of generateTravelPlan: 400 on a failed request check, 400 on an
\* inaccessible or unsafe destination, else 202 processing
submitAnswer(destination, requestValid) ==
  LET info == verifyDestination(destination)
  IN IF ~requestValid THEN "validation_failed"
     ELSE IF ~info.isAccessible \/ ~info.isSafe THEN "rejected"
     ELSE "processing"

\* variant: the handler awaits processTravelPlan before answering, so the
\* answer of an accepted call is still pending while the continuation runs
generateTravelPlan_awaitsProcessing(u, destination, requestValid, budgetIsNumber) ==
  /\ nextPlan < MaxPlans
  /\ LET p == nextPlan + 1
         answer == submitAnswer(destination, requestValid)
     IN /\ nextPlan' = p
        /\ resp' = [resp EXCEPT ![p] =
                      [answer |-> IF answer = "processing" THEN "pending" ELSE answer,
                       user |-> u, destination |-> destination,
                       isSafe |-> verifyDestination(destination).isSafe]]
        /\ task' = [task EXCEPT ![p] =
                      IF answer = "processing"
                        THEN [IdleTask EXCEPT !.pc = "await_draft_save", !.user = u,
                                              !.budgetIsNumber = budgetIsNumber]
                        ELSE @]
  /\ UNCHANGED <<plans, planCount, aiCalls, unitVars>>

\* generateTravelPlan: request check, safety gate, 202 answer, then the call
\* of processTravelPlan, which runs up to its first await (the draft save)
generateTravelPlan(u, destination, requestValid, budgetIsNumber) ==
  /\ nextPlan < MaxPlans
  /\ LET p == nextPlan + 1
         answer == submitAnswer(destination, requestValid)
     IN /\ nextPlan' = p
        /\ resp' = [resp EXCEPT ![p] =
                      [answer |-> answer, user |-> u, destination |-> destination,
                       isSafe |-> verifyDestination(destination).isSafe]]
        /\ task' = [task EXCEPT ![p] =
                      IF answer = "processing"
                        THEN [IdleTask EXCEPT !.pc = "await_draft_save", !.user = u,
                                              !.budgetIsNumber = budgetIsNumber]
                        ELSE @]
  /\ UNCHANGED <<plans, planCount, aiCalls, unitVars>>

(* ------------------ processTravelPlan (the continuation) --------------- *)

\* entering the catch block: the failure metrics are tracked and the failed
\* update is issued; the continuation waits for it
EnterCatch(t, message, raised) ==
  [t EXCEPT !.pc = "await_fail_update", !.error = message, !.raised = raised]

\* the function has returned; its locals other than the caught error are gone
Finished(t) == [IdleTask EXCEPT !.pc = "done", !.error = t.error, !.raised = t.raised,
                                !.status = t.status]

\* await travelPlan.save() of the draft settles; on success the provider is called
DraftSaveDone(p, dbOk) ==
  /\ task[p].pc = "await_draft_save"
  /\ IF dbOk
       THEN /\ plans' = [plans EXCEPT ![p] = NewDraft(task[p].user)]
            /\ aiCalls' = [aiCalls EXCEPT ![p] = @ + 1]
            /\ task' = [task EXCEPT ![p].pc = "await_ai"]
       ELSE /\ task' = [task EXCEPT ![p] = EnterCatch(@, "MongoError", <<"MongoError">>)]
            /\ UNCHANGED <<plans, aiCalls>>
  /\ UNCHANGED <<planCount, resp, nextPlan, unitVars>>

\* await geminiService.generateTravelPlan settles
AiReturn(p, outcome) ==
  /\ task[p].pc = "await_ai"
  /\ LET g == geminiGenerate(outcome)
     IN task' = [task EXCEPT ![p] =
                   IF g.ok THEN [@ EXCEPT !.pc = "await_validation"]
                   ELSE EnterCatch(@, g.error, g.raised)]
  /\ UNCHANGED <<plans, planCount, resp, aiCalls, nextPlan, unitVars>>

\* await priceValidation.validateTravelPlan settles; the document is filled,
\* status and the local status become completed, and the save is issued
ValidationDone(p, run) ==
  /\ task[p].pc = "await_validation"
  /\ LET v == validateTravelPlan(run)
     IN task' = [task EXCEPT ![p] =
                   IF v.threw
                     THEN EnterCatch(@, "PriceValidationError", <<"PriceValidationError">>)
                   ELSE IF ~v.hasDetails THEN EnterCatch(@, "TypeError", <<"TypeError">>)
                   ELSE [@ EXCEPT !.pc = "await_completed_save", !.status = "completed",
                                  !.validation = IF v.fallback THEN "unavailable"
                                                 ELSE IF v.isValid THEN "valid"
                                                 ELSE "invalid"]]
  /\ UNCHANGED <<plans, planCount, resp, aiCalls, nextPlan, unitVars>>

\* await travelPlan.save() of the completed document settles; a document
\* deleted meanwhile makes the save fail; on success the planCount update is issued
CompletedSaveDone(p, dbOk) ==
  /\ task[p].pc = "await_completed_save"
  /\ IF dbOk /\ plans[p].status # "absent"
       THEN /\ plans' = [plans EXCEPT ![p].status = "completed", ![p].generated = TRUE]
            /\ task' = [task EXCEPT ![p].pc = "await_plan_count"]
       ELSE /\ task' = [task EXCEPT ![p] = EnterCatch(@, "MongoError", <<"MongoError">>)]
            /\ UNCHANGED plans
  /\ UNCHANGED <<planCount, resp, aiCalls, nextPlan, unitVars>>

\* await User.findByIdAndUpdate($inc planCount) settles; then the metrics
\* calls run, unguarded, inside the same try block
PlanCountDone(p, dbOk) ==
  /\ task[p].pc = "await_plan_count"
  /\ IF dbOk
       THEN /\ planCount' = [planCount EXCEPT ![task[p].user] = @ + 1]
            /\ task' = [task EXCEPT ![p] =
                 IF trackBudgetThrows(@.budgetIsNumber)
                   THEN EnterCatch(@, "Value is not a valid number",
                                   <<"Value is not a valid number">>)
                   ELSE Finished(@)]
       ELSE /\ task' = [task EXCEPT ![p] = EnterCatch(@, "MongoError", <<"MongoError">>)]
            /\ UNCHANGED planCount
  /\ UNCHANGED <<plans, resp, aiCalls, nextPlan, unitVars>>

\* await TravelPlan.findOneAndUpdate({planId}, failed) settles; its own
\* failure is only logged
FailUpdateDone(p, dbOk) ==
  /\ task[p].pc = "await_fail_update"
  /\ plans' = [plans EXCEPT ![p] =
       IF dbOk /\ @.status # "absent"
         THEN ApplyUpdate(@, FailedUpdate(task[p].error))
         ELSE @]
  /\ task' = [task EXCEPT ![p] = Finished(@)]
  /\ UNCHANGED <<planCount, resp, aiCalls, nextPlan, unitVars>>

(* ---------------------- plan handlers (controller) --------------------- *)

\* variant: the lookup does not filter on the user
Found_anyUser(p, u) == plans[p].status # "absent"

\* TravelPlan.findOne({ planId, user: userId }) finds a document
Found(p, u) == plans[p].status # "absent" /\ plans[p].user = u

\* GET /plan/:planId: the answer, and the view counted for a completed plan
getTravelPlanAnswer(u, p) ==
  IF ~Found(p, u)
    THEN [code |-> 404, status |-> Undefined, error |-> Undefined]
    ELSE [code |-> 200, status |-> plans[p].status, error |-> plans[p].error]

getTravelPlan(u, p) ==
  /\ Found(p, u)
  /\ plans[p].status = "completed"
  /\ plans[p].views < MaxViews
  /\ plans' = [plans EXCEPT ![p].views = @ + 1]
  /\ UNCHANGED <<planCount, task, resp, aiCalls, nextPlan, unitVars>>

\* variant: a plan of any status may be updated
updateTravelPlanAnswer_anyStatus(u, p) ==
  IF ~Found(p, u) THEN 404 ELSE 200

\* PUT /plan/:planId: 404 for a plan not found, 400 unless completed
updateTravelPlanAnswer(u, p) ==
  IF ~Found(p, u) THEN 404 ELSE IF plans[p].status # "completed" THEN 400 ELSE 200

updateTravelPlan(u, p, isPublic) ==
  /\ updateTravelPlanAnswer(u, p) = 200
  /\ plans' = [plans EXCEPT ![p].isPublic = isPublic]
  /\ UNCHANGED <<planCount, task, resp, aiCalls, nextPlan, unitVars>>

\* POST /plan/:planId/rate: 400 on a bad score, 404, 400 unless completed
rateTravelPlanAnswer(u, p, score) ==
  IF score < 1 \/ score > 5 THEN 400
  ELSE IF ~Found(p, u) THEN 404
  ELSE IF plans[p].status # "completed" THEN 400 ELSE 200

rateTravelPlan(u, p, score) ==
  /\ rateTravelPlanAnswer(u, p, score) = 200
  /\ plans' = [plans EXCEPT ![p].rating = score]
  /\ UNCHANGED <<planCount, task, resp, aiCalls, nextPlan, unitVars>>

\* DELETE /plan/:planId: 404 for a plan not found
deleteTravelPlanAnswer(u, p) == IF ~Found(p, u) THEN 404 ELSE 200

\* DELETE /plan/:planId: the document is removed whatever its status and
\* planCount is decremented
deleteTravelPlan(u, p) ==
  /\ Found(p, u)
  /\ plans' = [plans EXCEPT ![p] = NoDoc]
  /\ planCount' = [planCount EXCEPT ![u] = @ - 1]
  /\ UNCHANGED <<task, resp, aiCalls, nextPlan, unitVars>>

Scores == {0, 4}

\* inputs of the pipeline specification: one accepted and one refused
\* destination, every provider outcome, every persistence outcome
PipelineDestinations == { <<"Paris", "France">>, <<"Syria">> }

\* the continuation's steps and the plan handlers, shared by both specifications
Continue(p) ==
  \/ \E dbOk \in BOOLEAN : DraftSaveDone(p, dbOk)
  \/ \E o \in ProviderOutcomes : AiReturn(p, o)
  \/ \E run \in ValidatorRuns : ValidationDone(p, run)
  \/ \E dbOk \in BOOLEAN : CompletedSaveDone(p, dbOk)
  \/ \E dbOk \in BOOLEAN : PlanCountDone(p, dbOk)
  \/ \E dbOk \in BOOLEAN : FailUpdateDone(p, dbOk)

Handle(u, p) ==
  \/ getTravelPlan(u, p)
  \/ \E pub \in BOOLEAN : updateTravelPlan(u, p, pub)
  \/ \E sc \in Scores : rateTravelPlan(u, p, sc)
  \/ deleteTravelPlan(u, p)

Next ==
  \/ \E u \in Users, d \in PipelineDestinations, valid \in BOOLEAN, num \in BOOLEAN :
       generateTravelPlan(u, d, valid, num)
  \/ \E p \in PlanIds : Continue(p)
  \/ \E u \in Users, p \in PlanIds : Handle(u, p)

Spec == Init /\ [][Next]_vars

\* the safety-gate specification: every destination text, one user, requests
\* that pass the request check with a numeric budget
NextGate ==
  \/ \E d \in Destinations : generateTravelPlan("u1", d, TRUE, TRUE)
  \/ \E p \in PlanIds : Continue(p)
  \/ \E p \in PlanIds : Handle("u1", p)

SpecGate == Init /\ [][NextGate]_vars

\* the specification in which every database write succeeds and every awaited
\* promise of a continuation settles: the event loop then runs the
\* continuation's next step, hence the weak fairness
ContinueWritesOk(p) ==
  \/ DraftSaveDone(p, TRUE)
  \/ \E o \in ProviderOutcomes : AiReturn(p, o)
  \/ \E run \in ValidatorRuns : ValidationDone(p, run)
  \/ CompletedSaveDone(p, TRUE)
  \/ PlanCountDone(p, TRUE)
  \/ FailUpdateDone(p, TRUE)

NextWritesOk ==
  \/ \E u \in Users, d \in PipelineDestinations, valid \in BOOLEAN, num \in BOOLEAN :
       generateTravelPlan(u, d, valid, num)
  \/ \E p \in PlanIds : ContinueWritesOk(p)
  \/ \E u \in Users, p \in PlanIds : Handle(u, p)

SpecWritesOk ==
  Init /\ [][NextWritesOk]_vars /\ \A p \in PlanIds : WF_vars(ContinueWritesOk(p))

(* ------------------------- plan identifiers ---------------------------- *)

MaxClock == 1
\* values of crypto.randomBytes(6) explored
RandomDraws == {0, 1}

\* variant: the identifier is made of the random bytes alone
generatePlanId_randomOnly(now, random) == <<"plan", 0, random>>

\* `plan_${Date.now().toString(36)}_${randomBytes(6).toString('hex')}`: the
\* text holds the millisecond and the random bytes, each readable from it
generatePlanId(now, random) == <<"plan", now, random>>

Tick ==
  /\ clock < MaxClock
  /\ clock' = clock + 1
  /\ UNCHANGED <<accepted, collection, otherThanIds>>

\* POST /plan accepted: the identifier is drawn and the continuation started
AcceptRequest(random) ==
  /\ Len(accepted) < MaxPlans
  /\ accepted' = Append(accepted, [ms |-> clock, random |-> random,
                                   planId |-> generatePlanId(clock, random),
                                   pc |-> "await_draft_save"])
  /\ UNCHANGED <<clock, collection, otherThanIds>>

\* index of the first document of the collection with that planId, 0 if none
FindOne(planId) ==
  LET hits == {i \in DOMAIN collection : collection[i].planId = planId}
  IN IF hits = {} THEN 0 ELSE CHOOSE i \in hits : \A j \in hits : i <= j

\* the draft's save(): planId has a unique index, so the insert of a second
\* document with a stored planId is refused (duplicate key) and the
\* continuation enters its catch block.  owner: the request whose continuation
\* inserted the document; writer: the request whose continuation wrote it last
InsertDraft(r) ==
  /\ accepted[r].pc = "await_draft_save"
  /\ IF FindOne(accepted[r].planId) = 0
       THEN /\ collection' = Append(collection, [planId |-> accepted[r].planId, owner |-> r,
                                                 writer |-> r, status |-> "draft"])
            /\ accepted' = [accepted EXCEPT ![r].pc = "await_ai"]
       ELSE /\ accepted' = [accepted EXCEPT ![r].pc = "await_fail_update"]
            /\ UNCHANGED collection
  /\ UNCHANGED <<clock, otherThanIds>>

\* generation and validation are over: the continuation saves its own document
\* (save() addresses it by _id) as completed, or enters its catch block
Generated(r, ok) ==
  /\ accepted[r].pc = "await_ai"
  /\ IF ok
       THEN /\ collection' = [i \in DOMAIN collection |->
                                IF collection[i].owner = r
                                  THEN [collection[i] EXCEPT !.status = "completed",
                                                             !.writer = r]
                                  ELSE collection[i]]
            /\ accepted' = [accepted EXCEPT ![r].pc = "done"]
       ELSE /\ accepted' = [accepted EXCEPT ![r].pc = "await_fail_update"]
            /\ UNCHANGED collection
  /\ UNCHANGED <<clock, otherThanIds>>

\* the failure handler: findOneAndUpdate({ planId }, { status: 'failed' })
MarkFailed(r) ==
  /\ accepted[r].pc = "await_fail_update"
  /\ LET i == FindOne(accepted[r].planId)
     IN collection' = IF i = 0 THEN collection
                      ELSE [collection EXCEPT ![i].status = "failed", ![i].writer = r]
  /\ accepted' = [accepted EXCEPT ![r].pc = "done"]
  /\ UNCHANGED <<clock, otherThanIds>>

NextIds ==
  \/ Tick
  \/ \E random \in RandomDraws : AcceptRequest(random)
  \/ \E r \in DOMAIN accepted : InsertDraft(r)
  \/ \E r \in DOMAIN accepted, ok \in BOOLEAN : Generated(r, ok)
  \/ \E r \in DOMAIN accepted : MarkFailed(r)

SpecIds == Init /\ [][NextIds]_vars

(* --------------------------- price validation -------------------------- *)

\* amounts are whole currency units; the multipliers are kept in tenths and
\* every comparison of the source is made on both sides times the divisors

\* priceBoundaries, the entries the checks read
priceBoundaries ==
  [flights |-> [international |-> [min |-> 200, max |-> 5000]],
   hotels |-> [budget |-> [min |-> 15, max |-> 100],
               midRange |-> [min |-> 50, max |-> 300],
               luxury |-> [min |-> 200, max |-> 2000]],
   activities |-> [perDay |-> [min |-> 10, max |-> 500]]]

\* countryMultipliers, in tenths
countryMultipliers == [France |-> 11, Turkey |-> 6, default |-> 8]

\* countryKeywords, in source order
countryKeywords ==
  << [country |-> "Turkey", keywords |-> {"turkey", "istanbul"}],
     [country |-> "France", keywords |-> {"france", "paris"}] >>

extractCountry(destination) ==
  LET lowerDestination == Cleaned(destination)
      hits == {i \in DOMAIN countryKeywords :
                 \E k \in countryKeywords[i].keywords : Includes(lowerDestination, k)}
  IN IF hits = {} THEN "default"
     ELSE countryKeywords[CHOOSE i \in hits : \A j \in hits : i <= j].country

\* getTravelStyleMultiplier, in tenths
getTravelStyleMultiplier(travelStyle) ==
  CASE travelStyle = "budget" -> 7
    [] travelStyle = "mid-range" -> 10
    [] travelStyle = "luxury" -> 18
    [] OTHER -> 10

\* dates are day numbers; Math.ceil(Math.abs(end - start) / one day)
calculateDuration(startDate, endDate) ==
  IF endDate >= startDate THEN endDate - startDate ELSE startDate - endDate

\* adjustBoundariesForCountry applied to one bound: the bound times both
\* multipliers, in hundredths of a unit
Adjusted(bound, countryMultiplier, styleMultiplier) ==
  bound * countryMultiplier * styleMultiplier

NoFindings == [isValid |-> TRUE, errors |-> <<>>, warnings |-> <<>>]

validateFlightPrices(flightCost, travelers, cm, sm) ==
  LET b == priceBoundaries.flights.international
  IN IF flightCost * 100 < Adjusted(b.min, cm, sm) * travelers
       THEN [NoFindings EXCEPT !.warnings = <<"flight price unusually low">>]
     ELSE IF flightCost * 100 > Adjusted(b.max, cm, sm) * travelers
       THEN [isValid |-> FALSE, errors |-> <<"flight price unusually high">>,
             warnings |-> <<>>]
     ELSE IF flightCost * 1000 > Adjusted(b.max, cm, sm) * 8 * travelers
       THEN [NoFindings EXCEPT !.warnings = <<"flight price quite expensive">>]
     ELSE NoFindings

validateHotelPrices(hotelCost, duration, cm, sm, travelStyle) ==
  LET b == IF travelStyle = "budget" THEN priceBoundaries.hotels.budget
           ELSE IF travelStyle = "luxury" THEN priceBoundaries.hotels.luxury
           ELSE priceBoundaries.hotels.midRange
  IN IF hotelCost * 100 < Adjusted(b.min, cm, sm) * duration
       THEN [NoFindings EXCEPT !.warnings = <<"hotel price low">>]
     ELSE IF hotelCost * 100 > Adjusted(b.max, cm, sm) * duration
       THEN [isValid |-> FALSE, errors |-> <<"hotel price exceeds limits">>,
             warnings |-> <<>>]
     ELSE IF hotelCost * 1000 > Adjusted(b.max, cm, sm) * 8 * duration
       THEN [NoFindings EXCEPT !.warnings = <<"hotel price at the high end">>]
     ELSE NoFindings

validateActivityPrices(activityCost, duration, cm, sm) ==
  LET b == priceBoundaries.activities.perDay
  IN IF activityCost * 100 > Adjusted(b.max, cm, sm) * duration
       THEN [NoFindings EXCEPT !.warnings = <<"activity cost high">>]
     ELSE IF activityCost * 100 < Adjusted(b.min, cm, sm) * duration
       THEN [NoFindings EXCEPT !.warnings = <<"activity cost low">>]
     ELSE NoFindings

\* the source computes budgetPerPerson * 1.2 in IEEE doubles; for these explored
\* <<budgetUSD, travelers>> the product lies below 1.2 x budgetUSD / travelers
\* ((1000 / 3) * 1.2 is 399.99999999999994, (2000 / 3) * 1.2 is
\* 799.9999999999999); for the other explored pairs it is that value exactly
ThresholdRoundsBelow == {<<1000, 3>>, <<2000, 3>>}

\* the overall budget check of validateRoute: budgetPerPerson = budget / travelers,
\* error if totalCost > budgetPerPerson * 1.2, else warning if
\* totalCost > budgetPerPerson (costs are whole numbers)
BudgetFinding(totalCost, budgetUSD, travelers) ==
  IF \/ totalCost * travelers * 10 > budgetUSD * 12
     \/ /\ totalCost * travelers * 10 = budgetUSD * 12
        /\ <<budgetUSD, travelers>> \in ThresholdRoundsBelow
    THEN "error"
  ELSE IF totalCost * travelers > budgetUSD THEN "warning"
  ELSE "none"

validateRoute(route, budgetUSD, duration, travelers, cm, travelStyle) ==
  LET sm == getTravelStyleMultiplier(travelStyle)
      f == validateFlightPrices(route.flights, travelers, cm, sm)
      h == validateHotelPrices(route.hotels, duration, cm, sm, travelStyle)
      a == validateActivityPrices(route.activities, duration, cm, sm)
      b == BudgetFinding(route.totalCost, budgetUSD, travelers)
      minReasonableCost ==
        (Adjusted(priceBoundaries.flights.international.min, cm, sm)
           + Adjusted(priceBoundaries.hotels.budget.min, cm, sm) * duration
           + Adjusted(priceBoundaries.activities.perDay.min, cm, sm) * duration) * travelers
  IN [isValid |-> f.isValid /\ h.isValid /\ b # "error",
      errors |-> f.errors \o h.errors
                   \o (IF b = "error" THEN <<"exceeds budget by more than 20%">> ELSE <<>>),
      warnings |-> f.warnings \o h.warnings \o a.warnings
                     \o (IF b = "warning" THEN <<"slightly exceeds budget">> ELSE <<>>)
                     \o (IF route.totalCost * 200 < minReasonableCost
                           THEN <<"cost unusually low">> ELSE <<>>),
      budget |-> b]

Min(S) == CHOOSE x \in S : \A y \in S : x <= y

\* variant: the tight-budget warning is given from 90% on
validateBudgetFeasibility_from90(routes, budgetUSD) ==
  IF Len(routes) = 0 THEN <<>>
  ELSE LET cheapest == Min({routes[i].totalCost : i \in DOMAIN routes})
       IN IF cheapest * 100 > 100 * budgetUSD THEN <<"cheapest option exceeds budget">>
          ELSE IF cheapest * 100 >= 90 * budgetUSD THEN <<"very tight budget">>
          ELSE IF cheapest * 100 < 60 * budgetUSD THEN <<"consider upgrading experiences">>
          ELSE <<>>

\* budgetUtilization = cheapest.totalCost / budgetUSD * 100
validateBudgetFeasibility(routes, budgetUSD) ==
  IF Len(routes) = 0 THEN <<>>
  ELSE LET cheapest == Min({routes[i].totalCost : i \in DOMAIN routes})
       IN IF cheapest * 100 > 100 * budgetUSD THEN <<"cheapest option exceeds budget">>
          ELSE IF cheapest * 100 > 90 * budgetUSD THEN <<"very tight budget">>
          ELSE IF cheapest * 100 < 60 * budgetUSD THEN <<"consider upgrading experiences">>
          ELSE <<>>

RECURSIVE SumSeq(_)
SumSeq(values) == IF values = <<>> THEN 0 ELSE Head(values) + SumSeq(Tail(values))

\* calculateStatistics on n values, kept free of division and root:
\* mean = sum / n, variance = sqdev / n^3, stdDev = sqrt(variance)
calculateStatistics(values) ==
  LET n == Len(values)
      sum == SumSeq(values)
  IN [n |-> n, sum |-> sum, values |-> values,
      sqdev |-> SumSeq([i \in DOMAIN values |-> (n * values[i] - sum) * (n * values[i] - sum)])]

\* the source computes mean, variance, stdDev and zScore in IEEE doubles. Of
\* the value lists explored, the double zScore differs from the exact one only
\* for five values, four of them equal, made of one of these pairs: the exact
\* zScore of the fifth value is 2, the double one is above 2
\* (2.0000000000000004 for 1000 and 1399, 2.0000000000000755 for 1399 and
\* 1402, at every position of the fifth value)
ZScoreRoundsAbove == {{1000, 1399}, {1399, 1402}}

\* variant: a value is an outlier above one standard deviation
IsOutlier_over1(value, stats) ==
  stats.n * (stats.n * value - stats.sum) * (stats.n * value - stats.sum) > stats.sqdev

\* zScore = |value - mean| / stdDev > 2, squared and cleared of fractions
\* (with stdDev = 0 the source compares NaN > 2, which is false, as here)
IsOutlier(value, stats) ==
  LET deviation == stats.n * (stats.n * value - stats.sum) * (stats.n * value - stats.sum)
  IN \/ deviation > 4 * stats.sqdev
     \/ /\ deviation = 4 * stats.sqdev
        /\ stats.sqdev > 0
        /\ stats.n = 5
        /\ {stats.values[i] : i \in DOMAIN stats.values} \in ZScoreRoundsAbove

Categories == <<"totalCost", "flights", "hotels", "activities">>

\* detection.outliers as the set of [routeId, category] flagged
detectPriceOutliers(routes) ==
  IF Len(routes) < 2 THEN {}
  ELSE { o \in [routeId : {routes[i].id : i \in DOMAIN routes},
                category : {Categories[c] : c \in DOMAIN Categories}] :
           \E i \in DOMAIN routes :
             /\ routes[i].id = o.routeId
             /\ IsOutlier(routes[i][o.category],
                          calculateStatistics([k \in DOMAIN routes |-> routes[k][o.category]])) }

\* what the rate lookup of getExchangeRates meets: a rate source answering with
\* a rate to USD, no source answering (both sources fail, and the static
\* fallback table is used), a source answering with rates that hold no USD
RateSources == {"live", "unavailable", "withoutUSD"}

\* rates to USD in thousandths; 0 stands for an absent rate
getFallbackRates(baseCurrency) ==
  CASE baseCurrency = "USD" -> [USD |-> 1000]
    [] baseCurrency = "EUR" -> [USD |-> 1180]
    [] baseCurrency = "GBP" -> [USD |-> 1370]
    [] baseCurrency = "TRY" -> [USD |-> 29]

getExchangeRates(baseCurrency, source) ==
  CASE source = "live" -> [USD |-> 1100]
    [] source = "unavailable" -> getFallbackRates(baseCurrency)
    [] source = "withoutUSD" -> [USD |-> 0]

\* currencyService.convertCurrency(amount, fromCurrency, 'USD'): the rate it
\* applies, or its rejection (ok FALSE) when the rates hold no USD
Conversion(fromCurrency, source) ==
  IF fromCurrency = "USD" THEN [ok |-> TRUE, rate |-> 1000]
  ELSE LET rates == getExchangeRates(fromCurrency, source)
       IN IF rates.USD = 0 THEN [ok |-> FALSE, rate |-> 0]
          ELSE [ok |-> TRUE, rate |-> rates.USD]

convertCurrency(amount, conversion) == (amount * conversion.rate) \div 1000

FlattenField(details, field) ==
  LET RECURSIVE F(_)
      F(k) == IF k = 0 THEN <<>> ELSE F(k - 1) \o details[k][field]
  IN F(Len(details))

\* PriceValidation.validateTravelPlan with the conversion's outcome given: the
\* report, failed marking the report of the catch block
validateTravelPlanReport(travelPlan, request, conversion) ==
  IF request.currency # "USD" /\ ~conversion.ok
    THEN [failed |-> TRUE, isValid |-> FALSE,
          errors |-> <<"Price validation system temporarily unavailable">>,
          warnings |-> <<>>, routes |-> <<>>, budget |-> <<>>, outliers |-> {},
          budgetInUSD |-> 0]
    ELSE
      LET budgetInUSD == IF request.currency # "USD"
                           THEN convertCurrency(request.budget, conversion)
                           ELSE request.budget
          duration == calculateDuration(request.startDate, request.endDate)
          cm == countryMultipliers[extractCountry(request.destination)]
          details == [i \in DOMAIN travelPlan |->
                        validateRoute(travelPlan[i], budgetInUSD, duration,
                                      request.travelers, cm, request.travelStyle)]
          budget == validateBudgetFeasibility(travelPlan, budgetInUSD)
          outliers == detectPriceOutliers(travelPlan)
      IN [failed |-> FALSE,
          isValid |-> \A i \in DOMAIN details : details[i].isValid,
          errors |-> FlattenField(details, "errors"),
          warnings |-> FlattenField(details, "warnings") \o budget
                         \o (IF outliers # {} THEN <<"price outliers found">> ELSE <<>>),
          routes |-> details, budget |-> budget, outliers |-> outliers,
          budgetInUSD |-> budgetInUSD]

\* the generated routes explored: id, totalCost and the cost breakdown
Route(id, totalCost, flights, hotels, activities) ==
  [id |-> id, totalCost |-> totalCost, flights |-> flights, hotels |-> hotels,
   activities |-> activities]

GeneratedPlans ==
  { << Route(1, 1800, 800, 700, 300) >>,
    << Route(1, 1000, 400, 400, 200), Route(2, 1050, 420, 430, 200),
       Route(3, 5000, 2000, 2000, 1000) >>,
    << Route(1, 2600, 1000, 1100, 500) >>,
    << Route(1, 2100, 900, 800, 400) >>,
    << Route(1, 2400, 1000, 1000, 400) >>,
    << Route(1, 1500, 6000, 700, 300) >>,
    << Route(1, 100, 50, 30, 20) >>,
    << Route(1, 400, 200, 150, 50) >>,
    << Route(1, 2100, 900, 800, 400), Route(2, 2600, 1000, 1100, 500) >> }

\* the requests explored; dates are day numbers (1 to 7: six days)
PlanRequests ==
  [destination : {<<"Paris", "France">>, <<"Atlantis">>},
   startDate : {1}, endDate : {7},
   budget : {1000, 2000}, currency : {"USD", "EUR"}, travelers : {1, 2, 3},
   travelStyle : {"mid-range", "budget"}]

InitValidation ==
  \E request \in PlanRequests, plan \in GeneratedPlans :
    check = [phase |-> "ready", request |-> request, plan |-> plan,
             conversion |-> <<>>, report |-> <<>>, stored |-> <<>>]

\* await priceValidation.validateTravelPlan(aiResponse, planRequest) settles
RunValidation(source) ==
  /\ check.phase = "ready"
  /\ LET conversion == Conversion(check.request.currency, source)
     IN check' = [check EXCEPT !.phase = "validated", !.conversion = conversion,
                               !.report = validateTravelPlanReport(check.plan,
                                                                   check.request,
                                                                   conversion)]
  /\ UNCHANGED otherThanValidation

\* processTravelPlan stores the plan: the routes as generated, at most three
\* warnings as price alerts among the local tips, status completed
StoreValidatedPlan ==
  /\ check.phase = "validated"
  /\ check' = [check EXCEPT
                 !.phase = "stored",
                 !.stored = [status |-> "completed", mainRoutes |-> check.plan,
                             priceAlerts |-> SubSeq(check.report.warnings, 1,
                                               IF Len(check.report.warnings) < 3
                                                 THEN Len(check.report.warnings) ELSE 3)]]
  /\ UNCHANGED otherThanValidation

NextValidation ==
  \/ \E source \in RateSources : RunValidation(source)
  \/ StoreValidatedPlan

InitValidationRun ==
  InitPipeline /\ InitIds /\ InitValidation /\ InitGenerationIdle /\ InitKeysIdle /\ InitTripIdle /\ InitReadingIdle /\ InitAccountIdle /\ InitDetectionIdle /\ InitAlertingIdle

SpecValidation == InitValidationRun /\ [][NextValidation]_vars

(* ------------------- generator: parsing and storing -------------------- *)

\* the field sets of the routes of a decoded object: complete, or lacking one
\* of the required fields
RouteShapes == {RequiredRoute} \cup {RequiredRoute \ {f} : f \in RequiredRoute}

MaxRoutes == 2

RouteLists == UNION {[1..n -> RouteShapes] : n \in 0..MaxRoutes}

\* the decoded objects explored: any set of truthy top-level fields, up to
\* MaxRoutes routes
ParsedObjects == [top : SUBSET RequiredTop, routes : RouteLists]

GeneratorTexts ==
  [fenced : BOOLEAN, braces : {TRUE}, decodes : {TRUE}, parsed : ParsedObjects]
  \cup [fenced : {FALSE}, braces : BOOLEAN, decodes : {FALSE}, parsed : {OkPlan}]

\* the fields of routeSchema; a stored route keeps the fields the schema knows
routeSchemaFields == {"id", "name", "totalCost", "breakdown", "dailyPlan", "bookingLinks"}

InitGeneration ==
  \E text \in GeneratorTexts :
    generation = [phase |-> "called", text |-> text, returned |-> <<>>, stored |-> <<>>]

\* await geminiService.generateTravelPlan settles on a provider response:
\* the plan it returns (the decoded object), or nothing when it throws
GenerateSettles ==
  /\ generation.phase = "called"
  /\ LET g == geminiGenerate([kind |-> "resolve", msg |-> <<>>, text |-> generation.text])
     IN generation' =
          [generation EXCEPT
             !.phase = IF g.ok THEN "generated" ELSE "thrown",
             !.returned = IF g.ok THEN <<parseGeminiResponse(generation.text).plan>>
                          ELSE <<>>]
  /\ UNCHANGED otherThanGeneration

\* processTravelPlan copies the four top-level fields of the returned plan
\* into the record and saves it as completed
StoreGeneratedPlan ==
  /\ generation.phase = "generated"
  /\ LET aiResponse == generation.returned[1]
     IN generation' =
          [generation EXCEPT
             !.phase = "stored",
             !.stored = <<[status |-> "completed",
                           top |-> aiResponse.top \cap RequiredTop,
                           routes |-> [i \in DOMAIN aiResponse.routes |->
                                         aiResponse.routes[i] \cap routeSchemaFields]]>>]
  /\ UNCHANGED otherThanGeneration

\* the catch block of processTravelPlan marks the record failed
StoreGenerationFailure ==
  /\ generation.phase = "thrown"
  /\ generation' = [generation EXCEPT !.phase = "stored",
                                      !.stored = <<[status |-> "failed", top |-> {},
                                                    routes |-> <<>>]>>]
  /\ UNCHANGED otherThanGeneration

NextGeneration ==
  \/ GenerateSettles
  \/ StoreGeneratedPlan
  \/ StoreGenerationFailure

InitGenerationRun ==
  InitPipeline /\ InitIds /\ InitValidationIdle /\ InitGeneration /\ InitKeysIdle /\ InitTripIdle /\ InitReadingIdle /\ InitAccountIdle /\ InitDetectionIdle /\ InitAlertingIdle

SpecGeneration == InitGenerationRun /\ [][NextGeneration]_vars

(* ----------------------- planUtils: cache key -------------------------- *)

\* the interest categories explored, in the order Array.prototype.sort puts
\* them (by code units)
InterestOrder == <<"culture", "food">>

\* interests.sort(): the list in ascending order, duplicates kept
Sorted(interests) ==
  LET RECURSIVE Take(_)
      Take(k) == IF k = 0 THEN <<>>
                 ELSE Take(k - 1) \o SelectSeq(interests, LAMBDA x : x = InterestOrder[k])
  IN Take(Len(InterestOrder))

\* Math.round(budget / 100) * 100 for a budget that is a whole number
RoundedBudget(budget) == ((budget + 50) \div 100) * 100

\* the digest of a key string: equal strings have equal digests, and different
\* strings are taken to have different digests
md5(keyString) == <<"md5", keyString>>

\* generateCacheKey: the digest of the serialized keyData
generateCacheKey(planRequest) ==
  md5(<< Cleaned(planRequest.destination),
         planRequest.startDate,
         planRequest.endDate,
         RoundedBudget(planRequest.budget),
         planRequest.currency,
         planRequest.travelers,
         IF planRequest.travelStyle = Undefined THEN "mid-range"
         ELSE planRequest.travelStyle,
         Sorted(planRequest.interests) >>)

\* the request object after a call: sort() has put its interests in order
AfterKey(planRequest) == [planRequest EXCEPT !.interests = Sorted(@)]

KeyRequests ==
  [destination : {<<"Paris">>, <<"Iran">>, <<"IRAN">>},
   startDate : {1, 2}, endDate : {7},
   budget : {2000, 2040, 2050},
   currency : {"USD", "EUR"}, travelers : {1, 2},
   travelStyle : {Undefined},
   interests : {<<"culture", "food">>, <<"food", "culture">>, <<"food">>}]

InitKeys ==
  \E first \in KeyRequests, second \in KeyRequests :
    lookup = [phase |-> "ready", first |-> first, second |-> second,
              firstKey |-> <<>>, againKey |-> <<>>, secondKey |-> <<>>]

\* generateCacheKey(first)
KeyFirst ==
  /\ lookup.phase = "ready"
  /\ lookup' = [lookup EXCEPT !.phase = "first",
                              !.firstKey = generateCacheKey(lookup.first),
                              !.first = AfterKey(@)]
  /\ UNCHANGED otherThanKeys

\* generateCacheKey(first) once more, on the object the first call left
KeyAgain ==
  /\ lookup.phase = "first"
  /\ lookup' = [lookup EXCEPT !.phase = "again",
                              !.againKey = generateCacheKey(lookup.first),
                              !.first = AfterKey(@)]
  /\ UNCHANGED otherThanKeys

\* generateCacheKey(second)
KeySecond ==
  /\ lookup.phase = "again"
  /\ lookup' = [lookup EXCEPT !.phase = "both",
                              !.secondKey = generateCacheKey(lookup.second),
                              !.second = AfterKey(@)]
  /\ UNCHANGED otherThanKeys

NextKeys ==
  \/ KeyFirst
  \/ KeyAgain
  \/ KeySecond

InitKeysRun ==
  InitPipeline /\ InitIds /\ InitValidationIdle /\ InitGenerationIdle /\ InitKeys /\ InitTripIdle /\ InitReadingIdle /\ InitAccountIdle /\ InitDetectionIdle /\ InitAlertingIdle

SpecKeys == InitKeysRun /\ [][NextKeys]_vars

(* ------------------------ planUtils: trip duration --------------------- *)

\* time values are counted in hours; NaN is the time value of an Invalid Date
NaN == -1
HoursPerDay == 24

\* the date texts explored, all of them accepted by isISO8601: a calendar
\* date, a date with a time of day, and a week date (which new Date() does not
\* parse).  day: the calendar day the text names, counted from a fixed day
DateDays == {0, 1, 2, 7, 366, 367}
DateTexts ==
  [form : {"date"}, day : DateDays, hour : {0}]
  \cup [form : {"datetime"}, day : {1, 2, 7}, hour : {6, 18}]
  \cup [form : {"week"}, day : {7}, hour : {0}]

\* today at 00:00, as the start date check computes it
Today == HoursPerDay

\* new Date(text).getTime()
DateValue(text) ==
  IF text.form = "week" THEN NaN ELSE text.day * HoursPerDay + text.hour

\* relational operators on time values: any comparison with NaN is false
Less(a, b) == a # NaN /\ b # NaN /\ a < b
LessEq(a, b) == a # NaN /\ b # NaN /\ a <= b

\* Math.ceil(Math.abs(end - start) / day)
CeilDays(start, end) ==
  IF start = NaN \/ end = NaN THEN NaN
  ELSE LET diffTime == IF end >= start THEN end - start ELSE start - end
       IN (diffTime + HoursPerDay - 1) \div HoursPerDay

calculateTripDuration(startDate, endDate) ==
  CeilDays(DateValue(startDate), DateValue(endDate))

\* the custom checks of travelPlanValidation on startDate and endDate: the
\* messages of the checks that fail
dateErrors(startDate, endDate) ==
  LET start == DateValue(startDate)
      end == DateValue(endDate)
      diffDays == CeilDays(start, end)
  IN (IF Less(start, Today) THEN {"Start date cannot be in the past"} ELSE {})
     \cup (IF LessEq(end, start) THEN {"End date must be after start date"}
           ELSE IF Less(365, diffDays) THEN {"Trip duration cannot exceed 365 days"}
           ELSE {})

InitTrip ==
  \E startDate \in DateTexts, endDate \in DateTexts :
    trip = [phase |-> "received", startDate |-> startDate, endDate |-> endDate,
            duration |-> 0]

\* the request check of POST /plan on the two dates
CheckDates ==
  /\ trip.phase = "received"
  /\ trip' = [trip EXCEPT !.phase = IF dateErrors(trip.startDate, trip.endDate) = {}
                                      THEN "valid" ELSE "rejected"]
  /\ UNCHANGED otherThanTrip

\* generateTravelPlan computes the duration of a request that passed the check
ComputeDuration ==
  /\ trip.phase = "valid"
  /\ trip' = [trip EXCEPT !.phase = "handled",
                          !.duration = calculateTripDuration(trip.startDate, trip.endDate)]
  /\ UNCHANGED otherThanTrip

NextTrip ==
  \/ CheckDates
  \/ ComputeDuration

InitTripRun ==
  InitPipeline /\ InitIds /\ InitValidationIdle /\ InitGenerationIdle /\ InitKeysIdle /\ InitTrip /\ InitReadingIdle /\ InitAccountIdle /\ InitDetectionIdle /\ InitAlertingIdle

SpecTrip == InitTripRun /\ [][NextTrip]_vars

(* ------------------- GET /plan/:planId, step by step ------------------- *)

\* GET requests explored on the one plan
MaxGets == 3
GetIds == 1..MaxGets

\* the planId texts of the requests: the stored plan's, a well-formed one that
\* no plan has, and one that does not match /^plan_[a-z0-9_]+$/
RequestPlanIds == {"plan_1", "plan_nonexistent", "invalid-id-format"}
MatchesPlanIdFormat(planId) == planId \in {"plan_1", "plan_nonexistent"}

\* param('planId').matches(...) in the route: the errors it records on the
\* request for validationResult to report
paramErrors(planId) ==
  IF MatchesPlanIdFormat(planId) THEN <<>> ELSE <<"Invalid plan ID format">>

IdleGet == [pc |-> "idle", user |-> Undefined, planId |-> Undefined, errors |-> <<>>,
            loaded |-> 0, code |-> 0]

\* the stored plan: owned by u1, in any status, private or public
InitReading ==
  \E status \in {"draft", "completed", "failed"}, isPublic \in BOOLEAN :
    reading = [doc |-> [planId |-> "plan_1", user |-> "u1", status |-> status,
                        isPublic |-> isPublic, views |-> 0],
               gets |-> [i \in GetIds |-> IdleGet]]

\* the route's validator has run and getTravelPlan, which does not consult
\* validationResult, is called; await TravelPlan.findOne({ planId, user:
\* userId }) settles: 404 when no plan of that user has the planId; a plan
\* that is not completed is answered at once; for a completed plan the loaded
\* document's views are raised in memory and its save is issued
FindForGet(i, u, planId) ==
  /\ reading.gets[i].pc = "idle"
  /\ LET get == [IdleGet EXCEPT !.user = u, !.planId = planId,
                                !.errors = paramErrors(planId)]
     IN reading' =
          [reading EXCEPT !.gets[i] =
             IF reading.doc.planId # planId \/ reading.doc.user # u
               THEN [get EXCEPT !.pc = "done", !.code = 404]
             ELSE IF reading.doc.status # "completed"
               THEN [get EXCEPT !.pc = "done", !.loaded = reading.doc.views,
                                !.code = 200]
             ELSE [get EXCEPT !.pc = "await_save", !.loaded = reading.doc.views + 1]]
  /\ UNCHANGED otherThanReading

\* await travelPlan.incrementViews() settles: save() has written the views of
\* the in-memory document; a failed save is answered 500
SaveViews(i, dbOk) ==
  /\ reading.gets[i].pc = "await_save"
  /\ reading' =
       [reading EXCEPT !.doc.views = IF dbOk THEN reading.gets[i].loaded ELSE @,
                       !.gets[i].pc = "done",
                       !.gets[i].code = IF dbOk THEN 200 ELSE 500]
  /\ UNCHANGED otherThanReading

NextReading ==
  \/ \E i \in GetIds, u \in Users, planId \in RequestPlanIds : FindForGet(i, u, planId)
  \/ \E i \in GetIds, dbOk \in BOOLEAN : SaveViews(i, dbOk)

InitReadingRun ==
  InitPipeline /\ InitIds /\ InitValidationIdle /\ InitGenerationIdle /\ InitKeysIdle /\ InitTripIdle /\ InitReading /\ InitAccountIdle /\ InitDetectionIdle /\ InitAlertingIdle

SpecReading == InitReadingRun /\ [][NextReading]_vars

(* ------------- DELETE /account against requests in flight -------------- *)

\* PUT /plan/:planId requests of the user explored
MaxUpdates == 2
UpdateIds == 1..MaxUpdates

IdleRequest == [pc |-> "idle", isPublic |-> FALSE, code |-> 0]

\* the user is active and owns one plan, private, still being generated or
\* already completed
InitAccount ==
  \E status \in {"draft", "completed"} :
    account = [isActive |-> TRUE,
               plan |-> [status |-> status, isPublic |-> FALSE],
               updates |-> [i \in UpdateIds |-> IdleRequest],
               deletion |-> IdleRequest]

\* authenticate on a PUT /plan/:planId request: 401 for a deactivated user
AuthenticateUpdate(i, isPublic) ==
  /\ account.updates[i].pc = "idle"
  /\ account' = [account EXCEPT !.updates[i] =
                   IF account.isActive
                     THEN [pc |-> "await_find", isPublic |-> isPublic, code |-> 0]
                     ELSE [pc |-> "done", isPublic |-> isPublic, code |-> 401]]
  /\ UNCHANGED otherThanAccount

\* updateTravelPlan: await TravelPlan.findOne settles; 400 unless the plan
\* found is completed, else isPublic is set on the loaded document and its
\* save is issued
UpdateFindDone(i) ==
  /\ account.updates[i].pc = "await_find"
  /\ account' = [account EXCEPT !.updates[i].pc =
                                   IF account.plan.status = "completed"
                                     THEN "await_save" ELSE "done",
                                !.updates[i].code =
                                   IF account.plan.status = "completed" THEN 0 ELSE 400]
  /\ UNCHANGED otherThanAccount

\* updateTravelPlan: await travelPlan.save() settles
UpdateSaveDone(i) ==
  /\ account.updates[i].pc = "await_save"
  /\ account' = [account EXCEPT !.plan.isPublic = account.updates[i].isPublic,
                                !.updates[i].pc = "done",
                                !.updates[i].code = 200]
  /\ UNCHANGED otherThanAccount

\* authenticate on DELETE /account, then the password is verified
AuthenticateDelete ==
  /\ account.deletion.pc = "idle"
  /\ account' = [account EXCEPT !.deletion =
                   IF account.isActive
                     THEN [IdleRequest EXCEPT !.pc = "await_user_update"]
                     ELSE [IdleRequest EXCEPT !.pc = "done", !.code = 401]]
  /\ UNCHANGED otherThanAccount

\* deleteUserAccount: await User.findByIdAndUpdate(isActive: false) settles
AnonymizeUserDone ==
  /\ account.deletion.pc = "await_user_update"
  /\ account' = [account EXCEPT !.isActive = FALSE,
                                !.deletion.pc = "await_plans_update"]
  /\ UNCHANGED otherThanAccount

\* deleteUserAccount: await TravelPlan.updateMany({user}, isPublic: false)
\* settles and the success response is sent
AnonymizePlansDone ==
  /\ account.deletion.pc = "await_plans_update"
  /\ account' = [account EXCEPT !.plan.isPublic = FALSE,
                                !.deletion.pc = "done",
                                !.deletion.code = 200]
  /\ UNCHANGED otherThanAccount

\* the plan's continuation saves it as completed; the save writes the paths
\* the continuation changed, isPublic not among them
PlanCompletes ==
  /\ account.plan.status = "draft"
  /\ account' = [account EXCEPT !.plan.status = "completed"]
  /\ UNCHANGED otherThanAccount

NextAccount ==
  \/ \E i \in UpdateIds, isPublic \in BOOLEAN : AuthenticateUpdate(i, isPublic)
  \/ \E i \in UpdateIds : UpdateFindDone(i)
  \/ \E i \in UpdateIds : UpdateSaveDone(i)
  \/ AuthenticateDelete
  \/ AnonymizeUserDone
  \/ AnonymizePlansDone
  \/ PlanCompletes

InitAccountRun ==
  InitPipeline /\ InitIds /\ InitValidationIdle /\ InitGenerationIdle /\ InitKeysIdle /\ InitTripIdle /\ InitReadingIdle /\ InitAccount /\ InitDetectionIdle /\ InitAlertingIdle

SpecAccount == InitAccountRun /\ [][NextAccount]_vars

(* ------------------ outlier detection on lists of routes ---------------- *)

\* the longest list of routes drawn
MaxPriced == 5

\* the total costs drawn for a route; the cost breakdown is the same for all
PricedCosts == {1000, 1399, 1402}

PricedRoutes ==
  UNION { [1..n -> PricedCosts] : n \in 2..MaxPriced }

\* a list of routes with the totals drawn, route ids 1..n
InitDetection ==
  \E totals \in PricedRoutes :
    detection = [pc |-> "drawn",
                 routes |-> [i \in DOMAIN totals |-> Route(i, totals[i], 500, 300, 200)],
                 outliers |-> {}]

\* detectPriceOutliers(routes) returns
DetectOutliers ==
  /\ detection.pc = "drawn"
  /\ detection' = [detection EXCEPT !.pc = "detected",
                                    !.outliers = detectPriceOutliers(detection.routes)]
  /\ UNCHANGED otherThanDetection

NextDetection ==
  \/ DetectOutliers

InitDetectionRun ==
  InitPipeline /\ InitIds /\ InitValidationIdle /\ InitGenerationIdle /\ InitKeysIdle /\ InitTripIdle /\ InitReadingIdle /\ InitAccountIdle /\ InitDetection /\ InitAlertingIdle

SpecDetection == InitDetectionRun /\ [][NextDetection]_vars

(* --------------------- alerting service: triggerAlert ------------------- *)

\* the last minute of the clock explored (Date.now(), counted in minutes)
MaxNow == 5

\* 5 * 60 * 1000 ms, in minutes
FiveMinutes == 5

\* this.alerts keeps the last 100 alerts
KeptAlerts == 100

AlertTypes == {"error_rate", "response_time"}
AlertSeverities == {"critical", "warning"}

\* `${alert.type}_${alert.severity}_${Math.floor(Date.now() / (5 * 60 * 1000))}`
generateAlertId(alert, now) == <<alert.type, alert.severity, now \div FiveMinutes>>

\* constructor: this.alerts = []
InitAlerting ==
  alerting = [now |-> 0, alerts |-> <<>>]

\* the clock read by Date.now() moves on
ClockAdvances ==
  /\ alerting.now < MaxNow
  /\ alerting' = [alerting EXCEPT !.now = @ + 1]
  /\ UNCHANGED otherThanAlerting

\* triggerAlert(alert): suppressed when an alert with the same id was recorded
\* less than five minutes ago, else recorded with the id and the time now;
\* the list is cut to its last 100 entries
triggerAlert(alert) ==
  LET now == alerting.now
      alertId == generateAlertId(alert, now)
      recentAlert == \E k \in DOMAIN alerting.alerts :
                       /\ alerting.alerts[k].id = alertId
                       /\ now - alerting.alerts[k].timestamp < FiveMinutes
      alertData == [id |-> alertId, timestamp |-> now, type |-> alert.type,
                    severity |-> alert.severity]
      pushed == Append(alerting.alerts, alertData)
  IN /\ ~recentAlert
     /\ alerting' = [alerting EXCEPT
                       !.alerts = IF Len(pushed) > KeptAlerts
                                    THEN SubSeq(pushed, Len(pushed) - KeptAlerts + 1, Len(pushed))
                                    ELSE pushed]
     /\ UNCHANGED otherThanAlerting

NextAlerting ==
  \/ ClockAdvances
  \/ \E alert \in [type : AlertTypes, severity : AlertSeverities] : triggerAlert(alert)

InitAlertingRun ==
  InitPipeline /\ InitIds /\ InitValidationIdle /\ InitGenerationIdle /\ InitKeysIdle /\ InitTripIdle /\ InitReadingIdle /\ InitAccountIdle /\ InitDetectionIdle /\ InitAlerting

SpecAlerting == InitAlertingRun /\ [][NextAlerting]_vars

(* ------------------------------- claims -------------------------------- *)

Acknowledged(p) == resp[p].answer = "processing"
Started(p) == task[p].pc # "idle"

\* C1: every call that passed the request check and the safety gate has its
\* processing acknowledgment while its continuation is still running, in
\* particular while the provider call is outstanding (which may last forever:
\* nothing forces AiReturn to happen).
C1_AckDoesNotAwaitGeneration ==
  \A p \in PlanIds : Started(p) => Acknowledged(p)

\* the acknowledgment is out and the provider call has not returned
C1_Witness ==
  \E p \in PlanIds : Acknowledged(p) /\ task[p].pc = "await_ai" /\ aiCalls[p] = 1

Refused(p) ==
  /\ resp[p].answer = "rejected"
  /\ ~resp[p].isSafe
  /\ plans[p].status = "absent"
  /\ ~Started(p)

\* C2 as stated: a call whose destination text names an advisory country is
\* refused with isSafe = false and never gets a Plan record.
C2_NamedAdvisoryIsRefused ==
  \A p \in PlanIds :
    (resp[p].answer \in {"rejected", "processing"} /\ NamesAdvisory(resp[p].destination))
      => Refused(p)

\* C2 amended: a call whose destination resolves (first known city in the
\* text, else first known country in table order) to an advisory country is
\* refused with isSafe = false, and no Plan record or continuation exists for
\* it in any later state.
C2_ResolvedAdvisoryIsRefused ==
  \A p \in PlanIds :
    (resp[p].answer \in {"rejected", "processing"}
       /\ parseDestination(resp[p].destination).country \in AdvisoryCountries)
      => Refused(p)

\* a refused call, with another call's plan already stored meanwhile
C2_Witness ==
  \E p, q \in PlanIds :
    /\ Refused(p)
    /\ parseDestination(resp[p].destination).country \in AdvisoryCountries
    /\ plans[q].status # "absent"

\* C3: once a call is acknowledged, a read of its planId by its owner is
\* never answered 404 (the draft record exists from the acknowledgment on).
C3_AcknowledgedPlanIsFound ==
  \A p \in PlanIds :
    Acknowledged(p) => getTravelPlanAnswer(resp[p].user, p).code # 404

Terminal == {"completed", "failed"}

\* C4: a stored status of completed or failed never changes as long as the
\* record is stored.
C4_TerminalStatusIsFinal ==
  [][\A p \in PlanIds :
       (plans[p].status \in Terminal /\ plans'[p].status # "absent")
         => plans'[p].status = plans[p].status]_vars

\* C5: when the continuation of a call has ended with an error caught, the
\* failure is on the Plan record if the draft had been created (the record
\* says failed, unless its owner deleted it), and otherwise the call was not
\* answered with the processing acknowledgment.
C5_FailureIsRecorded ==
  \A p \in PlanIds :
    (task[p].pc = "done" /\ task[p].error # Undefined)
      => IF aiCalls[p] = 0
           THEN ~Acknowledged(p)
           ELSE plans[p].status \in {"failed", "absent"}

\* C6: with every write succeeding and every awaited call returning, a plan
\* reaches exactly one of completed and failed: each step that stores one of
\* the two statuses starts from the draft.
C6_ExactlyOneTerminalStatus ==
  [][\A p \in PlanIds :
       (plans'[p].status \in Terminal /\ plans'[p].status # plans[p].status)
         => plans[p].status = "draft"]_vars

\* C7: whatever the price validator reports, and also when it fails inside,
\* the continuation goes from the validation on to the save of the completed
\* plan, and the status that save stores is completed.
C7_ValidationNeverFailsThePlan ==
  [][\A p \in PlanIds :
       /\ (task[p].pc = "await_validation" /\ task'[p].pc # "await_validation")
            => (task'[p].pc = "await_completed_save" /\ task'[p].error = Undefined)
       /\ (task[p].pc = "await_completed_save" /\ task'[p].pc = "await_plan_count")
            => plans'[p].status \in {"completed", "absent"}]_vars

\* one plan stored completed with a report that says invalid, another stored
\* completed after the validator failed inside
C7_Witness ==
  \E p, q \in PlanIds :
    /\ plans[p].status = "completed" /\ task[p].validation = "invalid"
    /\ plans[q].status = "completed" /\ task[q].validation = "unavailable"

\* C8: when the provider's text holds no {...} object, the error caught is an
\* invalid-response error, none of the provider error classes, and once the
\* failure handler is done the stored plan is failed with that reason.
C8_NoJsonIsInvalidResponse ==
  \A p \in PlanIds :
    task[p].raised = <<"No JSON found in Gemini response">>
      => /\ task[p].error \notin ProviderErrorClasses
         /\ (task[p].pc = "done" /\ plans[p].status # "absent")
              => (plans[p].status = "failed" /\ plans[p].error = task[p].error)

\* C9: a read of a failed plan by its owner answers status failed together
\* with a defined error reason.
C9_FailedPlanCarriesReason ==
  \A p \in PlanIds, u \in Users :
    (Found(p, u) /\ plans[p].status = "failed")
      => /\ getTravelPlanAnswer(u, p).status = "failed"
         /\ getTravelPlanAnswer(u, p).error # Undefined

\* the order in which the classes are tried, each with the text that selects it
ClassOrder ==
  << [text |-> "quota", class |-> "GEMINI_QUOTA_EXCEEDED"],
     [text |-> "safety", class |-> "CONTENT_FILTERED"],
     [text |-> "rate limit", class |-> "RATE_LIMIT_EXCEEDED"] >>

\* the first class in that order whose text the message holds, the generic
\* class when it holds none
ClassInOrder(msg) ==
  LET hits == {i \in DOMAIN ClassOrder : MsgIncludes(msg, ClassOrder[i].text)}
  IN IF hits = {} THEN "GEMINI_API_ERROR"
     ELSE ClassOrder[CHOOSE i \in hits : \A j \in hits : i <= j].class

\* C10: a rejection by the provider is caught as the one class its text
\* belongs to in the order quota, content filter, rate limit, generic; the
\* continuation then only runs the failure handler, the plan is never stored
\* completed, and the provider is called at most once for a plan.
C10_ProviderFailureClassifiedOnce ==
  \A p \in PlanIds :
    /\ aiCalls[p] <= 1
    /\ task[p].raised \in ProviderErrorTexts
         => /\ task[p].error \in ProviderErrorClasses
            /\ task[p].error = ClassInOrder(task[p].raised)
            /\ task[p].pc \in {"await_fail_update", "done"}
            /\ plans[p].status # "completed"

\* a text with both "rate limit" and "quota" was classified as quota, and the
\* plan is stored failed after one provider call
C10_Witness ==
  \E p \in PlanIds :
    /\ task[p].raised = <<"rate limit", "quota">>
    /\ task[p].error = "GEMINI_QUOTA_EXCEEDED"
    /\ task[p].pc = "done"
    /\ plans[p].status = "failed"
    /\ aiCalls[p] = 1

C12_MetricsFailureKeepsStatus ==
  \A p \in PlanIds :
    (task[p].pc = "done" /\ task[p].raised = <<"Value is not a valid number">>)
      => plans[p].status \in {"completed", "absent"}

Validated == check.phase \in {"validated", "stored"}
ConversionFailed == check.request.currency # "USD" /\ ~check.conversion.ok
InSeq(x, seq) == \E i \in DOMAIN seq : seq[i] = x

\* C13: when the conversion of the budget fails, the report still holds the
\* per-route checks of every route, made with the budget amount as given, and
\* it carries a warning.
C13_ConversionFailureDegrades ==
  (Validated /\ ConversionFailed)
    => /\ Len(check.report.routes) = Len(check.plan)
       /\ check.report.budgetInUSD = check.request.budget
       /\ check.report.warnings # <<>>

\* C14: the report's isValid is false exactly when one of the routes was
\* marked invalid by the per-route checks.
C14_InvalidIffRouteInvalid ==
  Validated
    => (~check.report.isValid
          <=> \E i \in DOMAIN check.report.routes : ~check.report.routes[i].isValid)

\* C15: in a report of the checks, a route carries the budget error exactly
\* when totalCost > 1.2 x (budget / travelers), and then the route and the
\* report are invalid; it carries the budget warning exactly when
\* budget / travelers < totalCost <= 1.2 x (budget / travelers).  A route at
\* 130% is of the first kind, a route at 105% of the second.
C15_BudgetThresholds ==
  (Validated /\ ~check.report.failed)
    => \A i \in DOMAIN check.plan :
         LET cost == check.plan[i].totalCost * check.request.travelers
             budget == check.report.budgetInUSD
             found == check.report.routes[i]
         IN /\ (cost * 10 > budget * 12)
                 <=> InSeq("exceeds budget by more than 20%", found.errors)
            /\ (cost * 10 > budget * 12) => (~found.isValid /\ ~check.report.isValid)
            /\ (cost > budget /\ cost * 10 <= budget * 12)
                 <=> InSeq("slightly exceeds budget", found.warnings)
            /\ cost * 10 = budget * 13 => ~found.isValid
            /\ cost * 100 = budget * 105
                 => (found.errors = <<>> => found.isValid)
                    /\ InSeq("slightly exceeds budget", found.warnings)

ThreeRoutes ==
  << Route(1, 1000, 400, 400, 200), Route(2, 1050, 420, 430, 200),
     Route(3, 5000, 2000, 2000, 1000) >>

\* C16 as stated: for the routes costing 1000, 1050 and 5000 the detector
\* flags the total cost of the 5000 route and of no other route.
C16_FlagsTheExpensiveRoute ==
  (Validated /\ ~check.report.failed /\ check.plan = ThreeRoutes)
    => {o.routeId : o \in {x \in check.report.outliers : x.category = "totalCost"}} = {3}

\* C16 amended: for the routes costing 1000, 1050 and 5000 the detector flags
\* no route in any category and the report carries no outlier warning (the
\* 5000 route lies about 1.41 standard deviations from the mean).
C16_ThreeRoutesNoOutlier ==
  (Validated /\ ~check.report.failed /\ check.plan = ThreeRoutes)
    => /\ check.report.outliers = {}
       /\ ~InSeq("price outliers found", check.report.warnings)

C16_Witness ==
  /\ Validated /\ ~check.report.failed /\ check.plan = ThreeRoutes
  /\ check.report.outliers = {}

ParisRequest ==
  [destination |-> <<"Paris", "France">>, startDate |-> 1, endDate |-> 7,
   budget |-> 2000, currency |-> "USD", travelers |-> 1, travelStyle |-> "mid-range"]
ParisStored ==
  /\ check.phase = "stored"
  /\ check.request = ParisRequest
  /\ check.plan = << Route(1, 1800, 800, 700, 300) >>

\* C17 as stated: the Paris request with the 1800 route ends stored completed
\* with mainRoutes[0].totalCost = 1800, a valid report without errors, and the
\* tight-budget warning.
C17_ParisTightBudgetWarning ==
  ParisStored
    => /\ check.stored.status = "completed"
       /\ check.stored.mainRoutes[1].totalCost = 1800
       /\ check.report.isValid /\ check.report.errors = <<>>
       /\ InSeq("very tight budget", check.report.warnings)

\* C17 amended: the same, except that the report carries no warning at all:
\* the utilization is exactly 90%, and the tight-budget warning is given
\* above 90%.
C17_ParisNoWarning ==
  ParisStored
    => /\ check.stored.status = "completed"
       /\ check.stored.mainRoutes[1].totalCost = 1800
       /\ check.report.isValid /\ check.report.errors = <<>>
       /\ check.report.warnings = <<>>
       /\ check.stored.priceAlerts = <<>>

C17_Witness ==
  ParisStored /\ check.stored.status = "completed" /\ check.report.isValid

\* C18: a call that passed the request check is refused exactly when its
\* destination resolves to a country of the advisory table, and then the
\* verdict has isAccessible and isSafe false; a destination that matches no
\* known city or country is accepted, with country "Unknown", isSafe true,
\* the limited-information warning and visaRequired true.
C18_RefusedIffAdvisory ==
  \A p \in PlanIds :
    resp[p].answer \in {"rejected", "processing"}
      => LET info == verifyDestination(resp[p].destination)
             resolved == parseDestination(resp[p].destination)
         IN /\ resp[p].answer = "rejected" <=> resolved.country \in AdvisoryCountries
            /\ resolved.country \in AdvisoryCountries
                 => ~info.isAccessible /\ ~info.isSafe /\ ~resp[p].isSafe
            /\ (resolved.city = Undefined
                  /\ resolved.country \notin (AdvisoryCountries \cup SafeCountries))
                 => /\ resp[p].answer = "processing"
                    /\ info.country = "Unknown"
                    /\ info.isSafe /\ resp[p].isSafe
                    /\ info.visaRequired
                    /\ InSeq("Limited information available for this destination",
                             info.warnings)

\* a call for an unknown destination accepted and its plan stored, next to a
\* refused call for an advisory country
C18_Witness ==
  \E p, q \in PlanIds :
    /\ resp[p].answer = "processing"
    /\ parseDestination(resp[p].destination).country = "Unknown"
    /\ plans[p].status # "absent"
    /\ resp[q].answer = "rejected"
    /\ parseDestination(resp[q].destination).country \in AdvisoryCountries

\* the decoded object has the four top-level fields, a route, and every
\* required field in every route
Complete(plan) ==
  /\ RequiredTop \subseteq plan.top
  /\ Len(plan.routes) >= 1
  /\ \A i \in DOMAIN plan.routes : RequiredRoute \subseteq plan.routes[i]

RequestsDiffer ==
  \/ Cleaned(lookup.first.destination) # Cleaned(lookup.second.destination)
  \/ lookup.first.startDate # lookup.second.startDate
  \/ lookup.first.endDate # lookup.second.endDate
  \/ lookup.first.budget # lookup.second.budget
  \/ lookup.first.currency # lookup.second.currency
  \/ lookup.first.travelers # lookup.second.travelers
  \/ Sorted(lookup.first.interests) # Sorted(lookup.second.interests)

\* C20: computing the key of a request twice gives the same key, and two
\* requests that differ in destination, dates, budget, currency, traveler
\* count or interests get different keys.
C20_KeysDifferWhenRequestsDiffer ==
  /\ lookup.phase \in {"again", "both"} => lookup.againKey = lookup.firstKey
  /\ (lookup.phase = "both" /\ RequestsDiffer) => lookup.firstKey # lookup.secondKey

\* C21: the duration computed for a request that passed the request check is
\* the number of days from the start date to the end date, and lies between
\* 1 and 365; a request whose end is not after its start, or whose span is
\* above 365 days, does not pass the check.
C21_DurationIsWholeDays ==
  /\ trip.phase = "handled"
       => /\ trip.duration = trip.endDate.day - trip.startDate.day
          /\ 1 <= trip.duration /\ trip.duration <= 365
  /\ (trip.phase \in {"valid", "handled"})
       => /\ trip.endDate.day >= trip.startDate.day
          /\ trip.endDate.day - trip.startDate.day <= 365

\* the continuation of plan p is between its completed save and its planCount
\* update
Counting(p) == task[p].pc = "await_plan_count"

\* C22: a user's planCount is never negative, and, while none of the user's
\* continuations is between its completed save and its count update, it is
\* the number of the user's stored plans that reached completed.
C22_PlanCountMatchesCompleted ==
  \A u \in Users :
    /\ planCount[u] >= 0
    /\ (\A p \in PlanIds : task[p].user = u => ~Counting(p))
         => planCount[u] = Cardinality({p \in PlanIds : /\ plans[p].status # "absent"
                                                         /\ plans[p].user = u
                                                         /\ plans[p].generated})

\* the GET requests answered 200
Retrieved == {i \in GetIds : reading.gets[i].pc = "done" /\ reading.gets[i].code = 200}

\* C23: once every GET request issued on a completed plan is answered, the
\* stored view count is the number of requests answered 200, whatever the
\* interleaving; GET requests on a draft or failed plan leave the count as it
\* was.
C23_ViewsCountRetrievals ==
  /\ reading.doc # <<>> /\ reading.doc.status # "completed" => reading.doc.views = 0
  /\ (reading.doc # <<>> /\ reading.doc.status = "completed"
        /\ \A i \in GetIds : reading.gets[i].pc \in {"idle", "done"})
       => reading.doc.views = Cardinality(Retrieved)

C25_PublicPlanIsRetrievable ==
  \A p \in PlanIds, u \in Users :
    (plans[p].status = "completed" /\ plans[p].isPublic)
      => getTravelPlanAnswer(u, p).code = 200

\* C26: a GET request whose planId does not match the plan-id format is
\* answered 400, and no lookup is made for it.
C26_MalformedPlanIdIsRejected ==
  \A i \in DOMAIN reading.gets :
    (reading.gets[i].pc = "done" /\ reading.gets[i].errors # <<>>)
      => reading.gets[i].code = 400

C28_NoPublicPlanAfterDeletion ==
  (account.deletion # <<>> /\ account.deletion.pc = "done" /\ account.deletion.code = 200)
    => ~account.plan.isPublic

\* C29: for a plan with 2 to 5 routes and any cost values, detectPriceOutliers
\* flags no route in any category.
C29_NoOutlierUpToFiveRoutes ==
  (detection.pc = "detected" /\ Len(detection.routes) \in 2..5)
    => detection.outliers = {}

\* C30: the recorded alert list never holds two alerts with the same type and
\* severity whose timestamps are less than 5 minutes apart.
C30_NoRepeatWithinFiveMinutes ==
  \A j, k \in DOMAIN alerting.alerts :
    (/\ j < k
     /\ alerting.alerts[j].type = alerting.alerts[k].type
     /\ alerting.alerts[j].severity = alerting.alerts[k].severity)
      => alerting.alerts[k].timestamp - alerting.alerts[j].timestamp >= FiveMinutes

====
